---- MODULE Spec2Model ----
(***************************************************************************)
(* PyLightTimers: the scheduler loop of timer.py, the Daylight Provider of *)
(* weather.py and the configuration editor of config.py.                   *)
(*                                                                         *)
(* Instants are whole minutes since midnight of the day the program was    *)
(* started; a datetime.time is the minute of its day.  Latitudes and       *)
(* longitudes are fixed-point numbers in 1/10000 of a degree.              *)
(***************************************************************************)
EXTENDS Integers, Sequences, FiniteSets, TLC

VARIABLES
    config,            \* timer.py: the module-level config = load_config()
    rooms,             \* timer.py: the module-level list of Room objects
    interval_minutes,  \* main: args.interval
    use_sunset,        \* main: args.use_sunset
    pc,                \* where the program is
    now,               \* the wall clock, in minutes
    outcome,           \* what the Daylight Provider's request met in this iteration
    weather_data,      \* main: the value get_sunrise_sunset returned
    start_time,        \* main: start of the active window (minute of the day)
    end_time,          \* main: end of the active window (minute of the day)
    active,            \* the value in_active_window returned
    next_start,        \* main: the instant the outside-window sleep ends
    sleeping,          \* the argument of the pending time.sleep call, in seconds
    time_frame,        \* main: the random count of interval units
    selected_room,     \* main: index into rooms of the selected room (from 1)
    decision,          \* main: the random bit
    exc,               \* the exception that ended the program, if any
    file,              \* config.json
    default_rooms,     \* config.py: the contents of the list object DEFAULT_ROOMS
    shared,            \* config["active_rooms"] is the list object DEFAULT_ROOMS
    input,             \* what the user typed at the last prompt(s)
    returned           \* the value the last direct call of toggle_room returned

vars == <<config, rooms, interval_minutes, use_sunset, pc, now, outcome,
          weather_data, start_time, end_time, active, next_start, sleeping,
          time_frame, selected_room, decision, exc, file, default_rooms,
          shared, input, returned>>

\* The state of the configuration editor's files, lists and prompts, which the
\* scheduler loop leaves alone.
editor_vars == <<file, default_rooms, shared, input, returned>>

\* The state of the scheduler loop, which the configuration editor leaves alone.
loop_vars == <<rooms, interval_minutes, use_sunset, now, outcome, weather_data,
               start_time, end_time, active, next_start, sleeping, time_frame,
               selected_room, decision, exc>>

\* A local that holds no value yet: an integer local is Unset, a local of
\* another type is the empty sequence (and <<v>> when it holds v).
Unset == 0 - 1
NoValue == <<>>

----------------------------------------------------------------------------
(* Bounds of the model *)

\* The clock is followed over the days 0 .. MaxDay - 1.
MaxDay == 2
\* The configured room list holds at most MaxRooms rooms.
MaxRooms == 2
\* The user of the configuration editor knows MaxNewRooms names of new rooms.
MaxNewRooms == 1

----------------------------------------------------------------------------
(* Time *)

MinutesPerDay == 24 * 60
SecondsPerMinute == 60

\* datetime.time(h, m)
Time(h, m) == h * 60 + m

\* now.time()
TimeOfDay(t) == t % MinutesPerDay

\* now.replace(hour=.., minute=.., second=.., microsecond=0)
ReplaceTime(t, tod) == (t \div MinutesPerDay) * MinutesPerDay + tod

MaxClock == MaxDay * MinutesPerDay

----------------------------------------------------------------------------
(* Text and numbers as Python reads them *)

Min(a, b) == IF a <= b THEN a ELSE b

\* str.strip() on the texts typed in this model
Strip(text) ==
    CASE text = " S "     -> "S"
      [] text = " 90 "    -> "90"
      [] text = "  "      -> ""
      [] OTHER            -> text

\* str.lower() on the texts typed in this model
Lower(text) ==
    CASE text = "S"            -> "s"
      [] text = "Q"            -> "q"
      [] text = "B"            -> "b"
      [] text = "L"            -> "l"
      [] text = "O"            -> "o"
      [] text = "A"            -> "a"
      [] text = "Europe/Paris" -> "europe/paris"
      [] OTHER                 -> text

\* A float: a finite number, held in 1/10000 of a degree, or nan, inf, -inf.
Float(v) == [kind |-> "num", v |-> v]
NaN == [kind |-> "nan", v |-> 0]
PosInf == [kind |-> "inf", v |-> 0]
NegInf == [kind |-> "-inf", v |-> 0]

\* a <= b on floats: false when either is nan
FloatLe(a, b) ==
    IF a.kind = "nan" \/ b.kind = "nan" THEN FALSE
    ELSE IF a.kind = "-inf" \/ b.kind = "inf" THEN TRUE
    ELSE IF a.kind = "inf" \/ b.kind = "-inf" THEN FALSE
    ELSE a.v <= b.v

\* a < b on floats: false when either is nan
FloatLt(a, b) ==
    IF a.kind = "nan" \/ b.kind = "nan" THEN FALSE
    ELSE FloatLe(a, b) /\ a # b

\* float(text): <<x>> when text reads as the float x, <<>> when float raises
\* ValueError
ParseFloat(text) ==
    CASE text = "90"        -> <<Float(900000)>>
      [] text = "90.0001"   -> <<Float(900001)>>
      [] text = "-90"       -> <<Float(-900000)>>
      [] text = "-90.0001"  -> <<Float(-900001)>>
      [] text = "180"       -> <<Float(1800000)>>
      [] text = "180.0001"  -> <<Float(1800001)>>
      [] text = "-180"      -> <<Float(-1800000)>>
      [] text = "-180.0001" -> <<Float(-1800001)>>
      [] text = "nan"       -> <<NaN>>
      [] text = "inf"       -> <<PosInf>>
      [] text = "-inf"      -> <<NegInf>>
      [] OTHER              -> <<>>

\* int(text): <<n>> when text reads as the integer n, <<>> when int raises
\* ValueError
ParseInt(text) ==
    CASE text = "-1" -> <<0 - 1>>
      [] text = "0"  -> <<0>>
      [] text = "1"  -> <<1>>
      [] text = "2"  -> <<2>>
      [] text = "3"  -> <<3>>
      [] text = "4"  -> <<4>>
      [] text = "5"  -> <<5>>
      [] text = "6"  -> <<6>>
      [] text = "7"  -> <<7>>
      [] OTHER       -> <<>>

Range(list) == {list[i] : i \in 1 .. Len(list)}

\* The room names of this model in the order sorted() puts them.
NameOrder == <<"Attic", "Bedroom", "Den", "Kitchen", "Living Room", "Office">>

\* sorted(set(..)) of room names
Sorted(names) == SelectSeq(NameOrder, LAMBDA n : n \in names)

\* list.remove(x): the first occurrence goes
ListRemove(list, x) ==
    LET at == CHOOSE i \in 1 .. Len(list) :
                  list[i] = x /\ \A j \in 1 .. i - 1 : list[j] # x
    IN  SubSeq(list, 1, at - 1) \o SubSeq(list, at + 1, Len(list))

----------------------------------------------------------------------------
(* config.py: the defaults and the file *)

DEFAULT_ROOMS == <<"Living Room", "Bedroom", "Kitchen">>

\* DEFAULT_CONFIG as the module defines it; its "active_rooms" is the list
\* object DEFAULT_ROOMS itself.
DEFAULT_CONFIG ==
    [active_rooms |-> DEFAULT_ROOMS,
     latitude     |-> Float(407128),
     longitude    |-> Float(-740060),
     timezone     |-> "America/New_York"]

ConfigKeys == {"active_rooms", "latitude", "longitude", "timezone"}

\* config.json: missing, not valid JSON, or a JSON object with some keys.
MissingFile == [state |-> "missing", data |-> <<>>]
InvalidFile == [state |-> "invalid", data |-> <<>>]
ValidFile(data) == [state |-> "valid", data |-> data]

\* load_config: the defaults, or the defaults updated with the file's keys.
\* defaults is the current content of the list object DEFAULT_ROOMS.
load_config(f, defaults) ==
    LET copy == [DEFAULT_CONFIG EXCEPT !.active_rooms = defaults]
    IN  IF f.state = "valid"
        THEN [k \in ConfigKeys |->
                 IF k \in DOMAIN f.data THEN f.data[k] ELSE copy[k]]
        ELSE copy

\* config.json in the other states a file can be in: present but open() fails
\* with an IOError, bytes that are not UTF-8 text, or valid JSON that is not an
\* object (json.load then returns a list, a number, a string or None).
UnreadableFile == [state |-> "unreadable", data |-> <<>>]
UndecodableFile == [state |-> "undecodable", data |-> <<>>]
JsonShapes == {"array", "empty_array", "number", "string", "null"}
NonObjectFile(shape) == [state |-> shape, data |-> <<>>]

\* The exception that leaves load_config, "none" when it returns. The except
\* clause names json.JSONDecodeError and IOError only: the UnicodeDecodeError of
\* read(), and the TypeError or ValueError of merged.update(data) on data that
\* is not a mapping (an empty list updates nothing), pass through it.
load_config_raises(f) ==
    CASE f.state = "undecodable"                -> "UnicodeDecodeError"
      [] f.state \in {"array", "number", "null"} -> "TypeError"
      [] f.state = "string"                     -> "ValueError"
      [] OTHER                                  -> "none"

\* Whether the configuration load_config returns holds, as its active_rooms,
\* the list object DEFAULT_ROOMS (copy() is shallow).
LoadShares(f) == f.state # "valid" \/ "active_rooms" \notin DOMAIN f.data

\* A save_config that writes the built-in defaults instead of its argument.
SaveDefaults(cfg) == ValidFile(DEFAULT_CONFIG)

\* save_config
save_config(cfg) == ValidFile(cfg)

\* The room lists the timer is started with: the configuration editor can switch
\* every room off, so the empty list is one of them.
ConfiguredRoomLists ==
    {SubSeq(DEFAULT_ROOMS, 1, Min(n, Len(DEFAULT_ROOMS))) : n \in 0 .. MaxRooms}

NoInput == [choice |-> "", entry |-> <<>>]

----------------------------------------------------------------------------
(* timer.py: Room *)

\* Room.__init__ with the light switched on at construction.
RoomStartsOn(name) == [name |-> name, light_on |-> TRUE]

\* Room.__init__
Room(name) == [name |-> name, light_on |-> FALSE]

\* Room.toggle_light
toggle_light(room) == [room EXCEPT !.light_on = ~room.light_on]

\* rooms = [Room(name) for name in active_room_names]
MakeRooms(active_room_names) ==
    [i \in 1 .. Len(active_room_names) |-> Room(active_room_names[i])]

\* generate_random_number(start, end): the values random.randint can return;
\* the empty set when start > end, where randint raises ValueError.
generate_random_number(start, end) == start .. end

----------------------------------------------------------------------------
(* weather.py: get_sunrise_sunset *)

\* The (sunset, sunrise) pairs the provider answers with: a window that wraps
\* midnight, one that does not, and one with sunset = sunrise.
DaylightAnswers ==
    { <<Time(16, 30), Time(7, 15)>>,
      <<Time(0, 30), Time(2, 0)>>,
      <<Time(12, 0), Time(12, 0)>> }

\* What a request can meet.
FailureKinds ==
    {"unreachable", "timeout", "empty_body", "malformed_json", "not_an_object",
     "no_daily", "empty_lists", "bad_iso"}

NoOutcome == [kind |-> "none", times |-> <<>>]

ProviderOutcomes ==
    { [kind |-> "ok", times |-> a] : a \in DaylightAnswers }
    \cup { [kind |-> k, times |-> <<>>] : k \in FailureKinds \cup {"interrupt"} }

\* The exception the body of the try block raises on an outcome ("none": it
\* runs to a return statement).
BodyRaises(o) ==
    CASE o.kind = "unreachable"    -> "URLError"
      [] o.kind = "timeout"        -> "TimeoutError"
      [] o.kind = "empty_body"     -> "JSONDecodeError"
      [] o.kind = "malformed_json" -> "JSONDecodeError"
      [] o.kind = "not_an_object"  -> "AttributeError"
      [] o.kind = "empty_lists"    -> "IndexError"
      [] o.kind = "bad_iso"        -> "ValueError"
      [] o.kind = "interrupt"      -> "KeyboardInterrupt"
      [] OTHER                     -> "none"

\* Exceptions that are not subclasses of Exception.
BaseOnlyExceptions == {"KeyboardInterrupt", "SystemExit", "GeneratorExit"}

\* The except clauses without the last one, except Exception.
CaughtWithoutCatchAll(e) ==
    \/ e = "URLError"
    \/ e \in {"JSONDecodeError", "KeyError", "ValueError"}

\* A bare except clause in place of except Exception.
CaughtByBareExcept(e) == TRUE

\* The three except clauses: URLError; JSONDecodeError, KeyError, ValueError;
\* Exception.
CaughtByProvider(e) ==
    \/ e = "URLError"
    \/ e \in {"JSONDecodeError", "KeyError", "ValueError"}
    \/ e \notin BaseOnlyExceptions

\* The value returned: NoData is Python's None, Data(..) the dict with the
\* two times (a sequence of the dicts returned: empty or one).
NoData == <<>>

\* The dict with the two times exchanged.
DataSwapped(sunset, sunrise) ==
    <<[sunset_time |-> sunrise, sunrise_time |-> sunset]>>

Data(sunset, sunrise) == <<[sunset_time |-> sunset, sunrise_time |-> sunrise]>>

\* [raised: the exception that leaves the function or "none",
\*  value: the returned value]
get_sunrise_sunset(latitude, longitude, timezone, o) ==
    LET e == BodyRaises(o)
    IN  IF e # "none"
        THEN IF CaughtByProvider(e)
             THEN [raised |-> "none", value |-> NoData]
             ELSE [raised |-> e, value |-> NoData]
        ELSE IF o.kind = "no_daily"
             THEN [raised |-> "none", value |-> NoData]
             ELSE [raised |-> "none", value |-> Data(o.times[1], o.times[2])]

----------------------------------------------------------------------------
(* timer.py: main *)

\* The fixed window, 6pm - 8am.
FixedStart == Time(18, 0)
FixedEnd == Time(8, 0)

\* in_active_window with the end of the window included.
InWindowClosedEnd(start, end, current_time) ==
    IF start <= end
    THEN start <= current_time /\ current_time <= end
    ELSE current_time >= start \/ current_time <= end

\* in_active_window with the start of the window excluded.
InWindowOpenStart(start, end, current_time) ==
    IF start <= end
    THEN start < current_time /\ current_time < end
    ELSE current_time > start \/ current_time < end

\* in_active_window, with the start_time and end_time it closes over
in_active_window(start, end, current_time) ==
    IF start <= end
    THEN start <= current_time /\ current_time < end
    ELSE current_time >= start \/ current_time < end

\* The next start datetime without the step to tomorrow of lines 94-95.
NextStartToday(t, start) == ReplaceTime(t, start)

\* The next start datetime with > in place of >= in line 94.
NextStartStrict(t, start) ==
    LET today == ReplaceTime(t, start)
    IN  IF TimeOfDay(t) > start THEN today + MinutesPerDay ELSE today

\* The next start datetime, lines 88-96
NextStart(t, start) ==
    LET today == ReplaceTime(t, start)
    IN  IF TimeOfDay(t) >= start THEN today + MinutesPerDay ELSE today

\* max_units with the 15-minute count used for both interval sizes.
MaxUnitsAlwaysTwelve(interval) == 12

\* max_units, lines 103-106
max_units(interval) == IF interval = 15 THEN 12 ELSE 6

\* Stage 3 with the bit's meaning the same for both states: 0 toggles.
ApplyDecisionZeroToggles(room, bit) ==
    IF bit = 0 THEN toggle_light(room) ELSE room

\* Stage 3, lines 116-130
ApplyDecision(room, bit) ==
    IF room.light_on
    THEN IF bit = 0 THEN toggle_light(room) ELSE room
    ELSE IF bit = 1 THEN toggle_light(room) ELSE room

\* if __name__ == '__main__': an exception leaving main ends the program,
\* cleanly when it is a KeyboardInterrupt.
TopLevel(e) == IF e = "KeyboardInterrupt" THEN "exited" ELSE "crashed"

Running == pc \in {"top", "check", "sleep_outside", "waiting"}

\* Lines 56-73: the bounds of the active window.
DetermineWindow ==
    /\ pc = "top"
    /\ IF use_sunset
       THEN \E o \in ProviderOutcomes :
              LET r == get_sunrise_sunset(config.latitude, config.longitude,
                                          config.timezone, o)
              IN  /\ outcome' = o
                  /\ IF r.raised # "none"
                     THEN /\ pc' = TopLevel(r.raised)
                          /\ exc' = r.raised
                          /\ UNCHANGED <<weather_data, start_time, end_time>>
                     ELSE /\ weather_data' = r.value
                          /\ IF r.value # NoData
                             THEN /\ start_time' = r.value[1].sunset_time
                                  /\ end_time' = r.value[1].sunrise_time
                             ELSE /\ start_time' = FixedStart
                                  /\ end_time' = FixedEnd
                          /\ pc' = "check"
                          /\ exc' = exc
       ELSE /\ start_time' = FixedStart
            /\ end_time' = FixedEnd
            /\ pc' = "check"
            /\ UNCHANGED <<outcome, weather_data, exc>>
    /\ selected_room' = Unset
    /\ decision' = Unset
    /\ UNCHANGED editor_vars
    /\ UNCHANGED <<config, rooms, interval_minutes, use_sunset, now, active,
                   next_start, sleeping, time_frame>>

\* Lines 85-109: the window test, then the call of time.sleep.  The provider's
\* request is over: the model forgets what it met.
CheckWindow ==
    /\ pc = "check"
    /\ active' = <<in_active_window(start_time, end_time, TimeOfDay(now))>>
    /\ IF ~active'[1]
       THEN /\ next_start' = NextStart(now, start_time)
            /\ sleeping' = (next_start' - now) * SecondsPerMinute
            /\ time_frame' = Unset
            /\ IF sleeping' < 0
               THEN pc' = TopLevel("ValueError") /\ exc' = "ValueError"
               ELSE pc' = "sleep_outside" /\ exc' = exc
       ELSE /\ time_frame' \in generate_random_number(1, max_units(interval_minutes))
            /\ sleeping' = time_frame' * interval_minutes * SecondsPerMinute
            /\ next_start' = Unset
            /\ pc' = "waiting"
            /\ exc' = exc
    /\ outcome' = NoOutcome
    /\ UNCHANGED editor_vars
    /\ UNCHANGED <<config, rooms, interval_minutes, use_sunset, now,
                   weather_data, start_time, end_time, selected_room, decision>>

\* Lines 99-100: the sleep outside the window returns; continue.  The locals
\* the window test sets again before they are read are forgotten; next_start
\* keeps its value until the next window test, so the iteration that follows
\* the sleep can be told from one that follows a random wait.
WakeOutside ==
    /\ pc = "sleep_outside"
    /\ now + sleeping \div SecondsPerMinute < MaxClock
    /\ now' = now + sleeping \div SecondsPerMinute
    /\ pc' = "top"
    /\ active' = NoValue
    /\ sleeping' = Unset
    /\ UNCHANGED editor_vars
    /\ UNCHANGED <<config, rooms, interval_minutes, use_sunset, outcome,
                   weather_data, start_time, end_time, next_start, time_frame,
                   selected_room, decision, exc>>

\* Lines 109-130: the random wait returns; select a room, draw the bit, apply
\* the rule.
WakeAndDecide ==
    /\ pc = "waiting"
    /\ now + sleeping \div SecondsPerMinute < MaxClock
    /\ now' = now + sleeping \div SecondsPerMinute
    /\ IF generate_random_number(0, Len(rooms) - 1) = {}
       THEN /\ pc' = TopLevel("ValueError")
            /\ exc' = "ValueError"
            /\ UNCHANGED <<rooms, selected_room, decision>>
       ELSE \E i \in generate_random_number(0, Len(rooms) - 1),
               bit \in generate_random_number(0, 1) :
              /\ selected_room' = i + 1
              /\ decision' = bit
              /\ rooms' = [rooms EXCEPT ![i + 1] = ApplyDecision(rooms[i + 1], bit)]
              /\ pc' = "top"
              /\ exc' = exc
    /\ active' = NoValue
    /\ sleeping' = Unset
    /\ time_frame' = Unset
    /\ UNCHANGED editor_vars
    /\ UNCHANGED <<config, interval_minutes, use_sunset, outcome, weather_data,
                   start_time, end_time, next_start>>

\* A keyboard interruption while the loop runs or sleeps.
Interrupt ==
    /\ Running
    /\ pc' = TopLevel("KeyboardInterrupt")
    /\ exc' = "KeyboardInterrupt"
    /\ UNCHANGED editor_vars
    /\ UNCHANGED <<config, rooms, interval_minutes, use_sunset, now, outcome,
                   weather_data, start_time, end_time, active, next_start,
                   sleeping, time_frame, selected_room, decision>>

\* The instants the program is started at: every quarter of an hour of day 0.
StartInstants == {15 * k : k \in 0 .. (MinutesPerDay \div 15) - 1}

\* timer.py, lines 20-23 and 42-52: the configuration is loaded, the rooms are
\* made, the arguments are read.
Init ==
    /\ \E l \in ConfiguredRoomLists :
         file = save_config([DEFAULT_CONFIG EXCEPT !.active_rooms = l])
    /\ default_rooms = DEFAULT_ROOMS
    /\ config = load_config(file, default_rooms)
    /\ shared = LoadShares(file)
    /\ input = NoInput
    /\ returned = NoValue
    /\ rooms = MakeRooms(config.active_rooms)
    /\ interval_minutes \in {15, 30}
    /\ use_sunset \in BOOLEAN
    /\ pc = "top"
    /\ now \in StartInstants
    /\ outcome = NoOutcome
    /\ weather_data = NoData
    /\ start_time = Unset
    /\ end_time = Unset
    /\ active = NoValue
    /\ next_start = Unset
    /\ sleeping = Unset
    /\ time_frame = Unset
    /\ selected_room = Unset
    /\ decision = Unset
    /\ exc = "none"

Next ==
    \/ DetermineWindow
    \/ CheckWindow
    \/ WakeOutside
    \/ WakeAndDecide
    \/ Interrupt

Spec == Init /\ [][Next]_vars

----------------------------------------------------------------------------
(* in_active_window as a function of its three inputs *)

HourTimes == {Time(h, 0) : h \in 0 .. 23}

InitWindow ==
    /\ file = MissingFile
    /\ default_rooms = DEFAULT_ROOMS
    /\ config = load_config(file, default_rooms)
    /\ shared = LoadShares(file)
    /\ input = NoInput
    /\ returned = NoValue
    /\ rooms = MakeRooms(DEFAULT_CONFIG.active_rooms)
    /\ interval_minutes = 15
    /\ use_sunset = FALSE
    /\ pc = "call"
    /\ now \in HourTimes
    /\ outcome = NoOutcome
    /\ weather_data = NoData
    /\ start_time \in HourTimes
    /\ end_time \in HourTimes
    /\ active = NoValue
    /\ next_start = Unset
    /\ sleeping = Unset
    /\ time_frame = Unset
    /\ selected_room = Unset
    /\ decision = Unset
    /\ exc = "none"

\* Lines 75-83: one call of in_active_window(now).
CallInActiveWindow ==
    /\ pc = "call"
    /\ active' = <<in_active_window(start_time, end_time, TimeOfDay(now))>>
    /\ pc' = "returned"
    /\ UNCHANGED editor_vars
    /\ UNCHANGED <<config, rooms, interval_minutes, use_sunset, now, outcome,
                   weather_data, start_time, end_time, next_start, sleeping,
                   time_frame, selected_room, decision, exc>>

NextWindow == CallInActiveWindow

SpecWindow == InitWindow /\ [][NextWindow]_vars

----------------------------------------------------------------------------
(* config.py: the interactive configuration editor *)

\* What the user types at the prompts.
MainChoices == {"q", "s", " S ", "1", "2", "3", "4", "x"}
RoomsChoices == {"b", "a", "0", "1", "2", "3", "4", "5", "x"}
LocationChoices == {"b", "B", "l", "L", "o", "x"}
LatitudeEntries ==
    {"90", " 90 ", "90.0001", "-90", "-90.0001", "180", "nan", "inf", "-inf",
     "abc", ""}
LongitudeEntries ==
    {"180", "180.0001", "-180", "-180.0001", "nan", "inf", "-inf", "abc", ""}
NewRoomNames ==
    LET known == <<"Attic", "Office", "Den">>
    IN  {known[i] : i \in 1 .. Min(MaxNewRooms, Len(known))}
RoomNameEntries == NewRoomNames \cup {"", "  ", "Kitchen"}
TimezoneEntries == {"b", "B", "Europe/Paris"}

\* The configuration files a session starts from.
InitialFiles ==
    { MissingFile,
      InvalidFile,
      ValidFile([active_rooms |-> <<"Kitchen">>,
                 latitude     |-> Float(515074),
                 longitude    |-> Float(-1278),
                 timezone     |-> "Europe/London"]),
      ValidFile([timezone |-> "Europe/London"]) }

\* toggle_room that reports True whatever it did.
ToggleReportsTrue(active_rooms, room_name) ==
    IF room_name \in Range(active_rooms)
    THEN [rooms |-> ListRemove(active_rooms, room_name), result |-> TRUE]
    ELSE [rooms |-> Append(active_rooms, room_name), result |-> TRUE]

\* toggle_room without the membership test: the name is appended.
ToggleAlwaysAppends(active_rooms, room_name) ==
    [rooms |-> Append(active_rooms, room_name), result |-> TRUE]

\* config.py toggle_room: the new list and the value returned
toggle_room(active_rooms, room_name) ==
    IF room_name \in Range(active_rooms)
    THEN [rooms |-> ListRemove(active_rooms, room_name), result |-> FALSE]
    ELSE [rooms |-> Append(active_rooms, room_name), result |-> TRUE]

\* The call toggle_room(config, room_name): the list is changed in place, so
\* DEFAULT_ROOMS changes with it when it is the same list object.
CallToggleRoom(room_name) ==
    LET t == toggle_room(config.active_rooms, room_name)
    IN  /\ config' = [config EXCEPT !.active_rooms = t.rooms]
        /\ default_rooms' = IF shared THEN t.rooms ELSE default_rooms

\* A room menu that lists the active rooms only.
MenuOfActiveRooms(cfg, defaults) == Sorted(Range(cfg.active_rooms))

\* display_rooms_menu: the rooms listed
display_rooms_menu(cfg, defaults) ==
    Sorted(Range(defaults) \cup Range(cfg.active_rooms))

\* The latitude test written as "not outside the range", which lets nan pass.
LatitudeNotOutside(lat) ==
    ~(FloatLt(lat, Float(-900000)) \/ FloatLt(Float(900000), lat))

\* Line 146 and line 156: the range tests
LatitudeInRange(lat) ==
    FloatLe(Float(-900000), lat) /\ FloatLe(lat, Float(900000))
LongitudeInRange(lon) ==
    FloatLe(Float(-1800000), lon) /\ FloatLe(lon, Float(1800000))

\* run_interactive_config: load_config, then the main menu.
InitConfig ==
    /\ file \in InitialFiles
    /\ default_rooms = DEFAULT_ROOMS
    /\ config = load_config(file, default_rooms)
    /\ shared = LoadShares(file)
    /\ input = NoInput
    /\ returned = NoValue
    /\ pc = "main_menu"
    /\ rooms = MakeRooms(config.active_rooms)
    /\ interval_minutes = 15
    /\ use_sunset = FALSE
    /\ now = 0
    /\ outcome = NoOutcome
    /\ weather_data = NoData
    /\ start_time = Unset
    /\ end_time = Unset
    /\ active = NoValue
    /\ next_start = Unset
    /\ sleeping = Unset
    /\ time_frame = Unset
    /\ selected_room = Unset
    /\ decision = Unset
    /\ exc = "none"

\* Main menu, 'q': exit without saving.
MainQuit ==
    /\ pc = "main_menu"
    /\ \E raw \in MainChoices :
         /\ Lower(Strip(raw)) = "q"
         /\ input' = [choice |-> raw, entry |-> <<>>]
    /\ pc' = "done"
    /\ UNCHANGED <<config, file, default_rooms, shared, returned>>
    /\ UNCHANGED loop_vars

\* Main menu, 's': save_config and exit.
MainSave ==
    /\ pc = "main_menu"
    /\ \E raw \in MainChoices :
         /\ Lower(Strip(raw)) = "s"
         /\ input' = [choice |-> raw, entry |-> <<>>]
    /\ file' = save_config(config)
    /\ pc' = "done"
    /\ UNCHANGED <<config, default_rooms, shared, returned>>
    /\ UNCHANGED loop_vars

\* Main menu, '1': run_rooms_config.
MainRooms ==
    /\ pc = "main_menu"
    /\ \E raw \in MainChoices :
         /\ Lower(Strip(raw)) = "1"
         /\ input' = [choice |-> raw, entry |-> <<>>]
    /\ pc' = "rooms_menu"
    /\ UNCHANGED <<config, file, default_rooms, shared, returned>>
    /\ UNCHANGED loop_vars

\* Main menu, '2': run_location_config.
MainLocation ==
    /\ pc = "main_menu"
    /\ \E raw \in MainChoices :
         /\ Lower(Strip(raw)) = "2"
         /\ input' = [choice |-> raw, entry |-> <<>>]
    /\ pc' = "location_menu"
    /\ UNCHANGED <<config, file, default_rooms, shared, returned>>
    /\ UNCHANGED loop_vars

\* Main menu, '3': run_timezone_config.
MainTimezone ==
    /\ pc = "main_menu"
    /\ \E raw \in MainChoices, entry \in TimezoneEntries :
         /\ Lower(Strip(raw)) = "3"
         /\ input' = [choice |-> raw, entry |-> <<entry>>]
         /\ LET tz == Strip(entry)
            IN  config' = IF Lower(tz) # "b"
                          THEN [config EXCEPT !.timezone = tz]
                          ELSE config
    /\ UNCHANGED <<pc, file, default_rooms, shared, returned>>
    /\ UNCHANGED loop_vars

\* Main menu, '4' (display_current_config) and every other selection.
MainOther ==
    /\ pc = "main_menu"
    /\ \E raw \in MainChoices :
         /\ Lower(Strip(raw)) \notin {"q", "s", "1", "2", "3"}
         /\ input' = [choice |-> raw, entry |-> <<>>]
    /\ UNCHANGED <<pc, config, file, default_rooms, shared, returned>>
    /\ UNCHANGED loop_vars

\* Room editor, 'b': back to the main menu.
RoomsBack ==
    /\ pc = "rooms_menu"
    /\ \E raw \in RoomsChoices :
         /\ Lower(Strip(raw)) = "b"
         /\ input' = [choice |-> raw, entry |-> <<>>]
    /\ pc' = "main_menu"
    /\ UNCHANGED <<config, file, default_rooms, shared, returned>>
    /\ UNCHANGED loop_vars

\* Room editor, 'a': add a new room.
RoomsAdd ==
    /\ pc = "rooms_menu"
    /\ \E raw \in RoomsChoices, entry \in RoomNameEntries :
         /\ Lower(Strip(raw)) = "a"
         /\ input' = [choice |-> raw, entry |-> <<entry>>]
         /\ LET all_rooms == display_rooms_menu(config, default_rooms)
                new_room == Strip(entry)
            IN  IF new_room # "" /\ new_room \notin Range(all_rooms)
                THEN CallToggleRoom(new_room)
                ELSE UNCHANGED <<config, default_rooms>>
    /\ UNCHANGED <<pc, file, shared, returned>>
    /\ UNCHANGED loop_vars

\* Room editor, any other selection: a room number to toggle.
RoomsToggle ==
    /\ pc = "rooms_menu"
    /\ \E raw \in RoomsChoices :
         /\ Lower(Strip(raw)) \notin {"b", "a"}
         /\ input' = [choice |-> raw, entry |-> <<>>]
         /\ LET all_rooms == display_rooms_menu(config, default_rooms)
                number == ParseInt(Lower(Strip(raw)))
            IN  IF number # <<>> /\ 0 <= number[1] - 1 /\ number[1] - 1 < Len(all_rooms)
                THEN CallToggleRoom(all_rooms[number[1]])
                ELSE UNCHANGED <<config, default_rooms>>
    /\ UNCHANGED <<pc, file, shared, returned>>
    /\ UNCHANGED loop_vars

\* Location editor, 'b': back to the main menu.
LocationBack ==
    /\ pc = "location_menu"
    /\ \E raw \in LocationChoices :
         /\ Lower(Strip(raw)) = "b"
         /\ input' = [choice |-> raw, entry |-> <<>>]
    /\ pc' = "main_menu"
    /\ UNCHANGED <<config, file, default_rooms, shared, returned>>
    /\ UNCHANGED loop_vars

\* Location editor, 'l': set the latitude.
LocationLatitude ==
    /\ pc = "location_menu"
    /\ \E raw \in LocationChoices, entry \in LatitudeEntries :
         /\ Lower(Strip(raw)) = "l"
         /\ input' = [choice |-> raw, entry |-> <<entry>>]
         /\ LET lat == ParseFloat(Strip(entry))
            IN  config' = IF lat # <<>> /\ LatitudeInRange(lat[1])
                          THEN [config EXCEPT !.latitude = lat[1]]
                          ELSE config
    /\ UNCHANGED <<pc, file, default_rooms, shared, returned>>
    /\ UNCHANGED loop_vars

\* Location editor, 'o': set the longitude.
LocationLongitude ==
    /\ pc = "location_menu"
    /\ \E raw \in LocationChoices, entry \in LongitudeEntries :
         /\ Lower(Strip(raw)) = "o"
         /\ input' = [choice |-> raw, entry |-> <<entry>>]
         /\ LET lon == ParseFloat(Strip(entry))
            IN  config' = IF lon # <<>> /\ LongitudeInRange(lon[1])
                          THEN [config EXCEPT !.longitude = lon[1]]
                          ELSE config
    /\ UNCHANGED <<pc, file, default_rooms, shared, returned>>
    /\ UNCHANGED loop_vars

\* Location editor, any other selection.
LocationOther ==
    /\ pc = "location_menu"
    /\ \E raw \in LocationChoices :
         /\ Lower(Strip(raw)) \notin {"b", "l", "o"}
         /\ input' = [choice |-> raw, entry |-> <<>>]
    /\ UNCHANGED <<pc, config, file, default_rooms, shared, returned>>
    /\ UNCHANGED loop_vars

NextConfig ==
    \/ MainQuit
    \/ MainSave
    \/ MainRooms
    \/ MainLocation
    \/ MainTimezone
    \/ MainOther
    \/ RoomsBack
    \/ RoomsAdd
    \/ RoomsToggle
    \/ LocationBack
    \/ LocationLatitude
    \/ LocationLongitude
    \/ LocationOther

SpecConfig == InitConfig /\ [][NextConfig]_vars

\* The sessions that leave the room editor alone.
NextLocation ==
    \/ MainQuit
    \/ MainSave
    \/ MainLocation
    \/ MainTimezone
    \/ MainOther
    \/ LocationBack
    \/ LocationLatitude
    \/ LocationLongitude
    \/ LocationOther

SpecLocation == InitConfig /\ [][NextLocation]_vars

----------------------------------------------------------------------------
(* load_config called on every state of config.json *)

\* Two values a file can hold for each key.
FileVariants ==
    [active_rooms |-> << <<"Kitchen">>, <<>> >>,
     latitude     |-> <<Float(515074), Float(0)>>,
     longitude    |-> <<Float(-1278), Float(0)>>,
     timezone     |-> <<"Europe/London", "UTC">>]

\* The JSON objects that hold any subset of the four keys.
ObjectFiles ==
    {ValidFile([k \in K |-> FileVariants[k][v[k]]]) :
        K \in SUBSET ConfigKeys, v \in [ConfigKeys -> 1 .. 2]}

FileStates ==
    {MissingFile, InvalidFile, UnreadableFile, UndecodableFile}
        \cup {NonObjectFile(shape) : shape \in JsonShapes}
        \cup ObjectFiles

InitLoad ==
    /\ file \in FileStates
    /\ default_rooms = DEFAULT_ROOMS
    /\ config = NoValue
    /\ shared = FALSE
    /\ input = NoInput
    /\ returned = NoValue
    /\ pc = "load"
    /\ rooms = <<>>
    /\ interval_minutes = 15
    /\ use_sunset = FALSE
    /\ now = 0
    /\ outcome = NoOutcome
    /\ weather_data = NoData
    /\ start_time = Unset
    /\ end_time = Unset
    /\ active = NoValue
    /\ next_start = Unset
    /\ sleeping = Unset
    /\ time_frame = Unset
    /\ selected_room = Unset
    /\ decision = Unset
    /\ exc = "none"

\* timer.py, at import: config = load_config() and the room list built from
\* it; an exception that leaves load_config ends the program there.
CallLoadConfig ==
    /\ pc = "load"
    /\ LET e == load_config_raises(file)
       IN  IF e = "none"
           THEN /\ config' = load_config(file, default_rooms)
                /\ shared' = LoadShares(file)
                /\ rooms' = MakeRooms(config'.active_rooms)
                /\ pc' = "loaded"
                /\ exc' = "none"
           ELSE /\ pc' = "load_failed"
                /\ exc' = e
                /\ UNCHANGED <<config, shared, rooms>>
    /\ UNCHANGED <<file, default_rooms, input, returned>>
    /\ UNCHANGED <<interval_minutes, use_sunset, now, outcome, weather_data,
                   start_time, end_time, active, next_start, sleeping,
                   time_frame, selected_room, decision>>

NextLoad == CallLoadConfig

SpecLoad == InitLoad /\ [][NextLoad]_vars

----------------------------------------------------------------------------
(* toggle_room as a function of the active list and the room name *)

MaxListLen == 3

ToggleNames == {"Living Room", "Bedroom", "Kitchen", "Attic"}

NoDuplicates(list) ==
    \A i, j \in 1 .. Len(list) : list[i] = list[j] => i = j

\* Every list of at most MaxListLen different names, in every order: the
\* default list and every list the editor makes and saves hold no name twice.
ToggleLists ==
    {l \in UNION {[1 .. n -> ToggleNames] : n \in 0 .. MaxListLen} :
        NoDuplicates(l)}

InitToggle ==
    /\ \E l \in ToggleLists :
         file = ValidFile([DEFAULT_CONFIG EXCEPT !.active_rooms = l])
    /\ default_rooms = DEFAULT_ROOMS
    /\ config = load_config(file, default_rooms)
    /\ shared = LoadShares(file)
    /\ \E name \in ToggleNames : input = [choice |-> "", entry |-> <<name>>]
    /\ returned = NoValue
    /\ pc = "toggle"
    /\ rooms = <<>>
    /\ interval_minutes = 15
    /\ use_sunset = FALSE
    /\ now = 0
    /\ outcome = NoOutcome
    /\ weather_data = NoData
    /\ start_time = Unset
    /\ end_time = Unset
    /\ active = NoValue
    /\ next_start = Unset
    /\ sleeping = Unset
    /\ time_frame = Unset
    /\ selected_room = Unset
    /\ decision = Unset
    /\ exc = "none"

\* status = toggle_room(config, room_name)
ToggleOnce ==
    /\ pc = "toggle"
    /\ CallToggleRoom(input.entry[1])
    /\ returned' = <<toggle_room(config.active_rooms, input.entry[1]).result>>
    /\ pc' = "toggled"
    /\ UNCHANGED <<file, shared, input>>
    /\ UNCHANGED loop_vars

\* The same call once more.
ToggleAgain ==
    /\ pc = "toggled"
    /\ CallToggleRoom(input.entry[1])
    /\ returned' = <<toggle_room(config.active_rooms, input.entry[1]).result>>
    /\ pc' = "toggled_twice"
    /\ UNCHANGED <<file, shared, input>>
    /\ UNCHANGED loop_vars

NextToggle ==
    \/ ToggleOnce
    \/ ToggleAgain

SpecToggle == InitToggle /\ [][NextToggle]_vars

\* The sessions that leave the location editor alone.
NextRooms ==
    \/ MainQuit
    \/ MainSave
    \/ MainRooms
    \/ MainTimezone
    \/ MainOther
    \/ RoomsBack
    \/ RoomsAdd
    \/ RoomsToggle

SpecRooms == InitConfig /\ [][NextRooms]_vars

----------------------------------------------------------------------------
(* The claims *)

\* C1: every change of a room's light state made by the loop happens at an
\* instant whose time of day lies inside the active window.
C1_LightChangesOnlyInWindow ==
    [][rooms' # rooms =>
         in_active_window(start_time', end_time', TimeOfDay(now'))]_vars

\* C2: the loop never stops on its own: no configuration makes an iteration
\* end the program with an exception other than the external interruption.
C2_LoopNeverStops == pc # "crashed"

\* C3: in_active_window returns true iff start <= now < end when start <= end,
\* and iff now >= start or now < end when start > end; for 18:00-08:00 exactly
\* the hours 18..23 and 0..7 are active; when start = end no time is active.
C3_WindowMembership ==
    pc = "returned" =>
        LET s == start_time
            e == end_time
            t == TimeOfDay(now)
            r == active[1]
        IN  /\ s <= e => (r <=> (s <= t /\ t < e))
            /\ s > e => (r <=> (t >= s \/ t < e))
            /\ (s = Time(18, 0) /\ e = Time(8, 0)) =>
                   (r <=> (t \div 60) \in (18 .. 23) \cup (0 .. 7))
            /\ s = e => ~r

C3_Witness ==
    /\ pc = "returned"
    /\ start_time = Time(18, 0)
    /\ end_time = Time(8, 0)
    /\ now = Time(23, 0)
    /\ active = <<TRUE>>

\* C4: outside the window the computed next window start is strictly after
\* now: today's start time when that has not yet passed, tomorrow's otherwise;
\* the sleep is positive and at most 24 hours.
C4_NextStartInFuture ==
    pc = "sleep_outside" =>
        LET today == (now \div MinutesPerDay) * MinutesPerDay + start_time
        IN  /\ next_start > now
            /\ next_start = IF today > now THEN today ELSE today + MinutesPerDay
            /\ sleeping = (next_start - now) * 60
            /\ sleeping > 0
            /\ sleeping <= 24 * 60 * 60

\* The window is empty (start = end), now is exactly the start time, and the
\* loop sleeps until tomorrow's start.
C4_Witness ==
    /\ pc = "sleep_outside"
    /\ start_time = end_time
    /\ TimeOfDay(now) = start_time
    /\ next_start = now + MinutesPerDay

\* C5: the selected room is on after the rule iff the drawn bit is 1: on and 0
\* -> off, on and 1 -> on, off and 1 -> on, off and 0 -> off.
C5_DecisionRule ==
    [][(pc = "waiting" /\ pc' = "top") =>
         LET before == rooms[selected_room'].light_on
             after == rooms'[selected_room'].light_on
         IN  /\ (before /\ decision' = 0) => ~after
             /\ (before /\ decision' = 1) => after
             /\ (~before /\ decision' = 1) => after
             /\ (~before /\ decision' = 0) => ~after
             /\ after <=> (decision' = 1)]_vars

\* The second room was selected with bit 0 and is off, the first room is on.
C5_Witness ==
    /\ pc = "top"
    /\ selected_room = 2
    /\ decision = 0
    /\ ~rooms[2].light_on
    /\ rooms[1].light_on

\* C6: the unit count is in 1..12 for the 15-minute interval and in 1..6 for the
\* 30-minute interval, the loop sleeps count x interval minutes, and every
\* wait is at least one interval and at most 180 minutes.
C6_UnitCountInRange ==
    pc = "waiting" =>
        /\ time_frame >= 1
        /\ interval_minutes = 15 => time_frame <= 12
        /\ interval_minutes = 30 => time_frame <= 6
        /\ sleeping = time_frame * interval_minutes * 60
        /\ sleeping >= interval_minutes * 60
        /\ sleeping <= 180 * 60

C6_Witness ==
    /\ pc = "waiting"
    /\ interval_minutes = 30
    /\ time_frame = 6
    /\ sleeping = 180 * 60

\* C7: in daylight mode a provider failure of any kind does not end the
\* program: get_sunrise_sunset returns the failure signal and the iteration
\* goes on with the fixed bounds 18:00 and 08:00.
C7_ProviderFailureFallsBack ==
    outcome.kind \in FailureKinds =>
        /\ pc # "crashed"
        /\ exc \in {"none", "KeyboardInterrupt"}
        /\ weather_data = NoData
        /\ start_time = Time(18, 0)
        /\ end_time = Time(8, 0)

\* The request timed out on the second day and the loop goes on with 18:00.
C7_Witness ==
    /\ pc = "check"
    /\ use_sunset
    /\ outcome.kind = "timeout"
    /\ start_time = Time(18, 0)
    /\ now > MinutesPerDay

\* C8: the rooms and their names are fixed at startup from the configured list
\* with every light off, and a step changes the light of no room but the one
\* selected in it.
C8_OnlySelectedRoomChanges ==
    /\ Len(rooms) = Len(config.active_rooms)
    /\ \A i \in 1 .. Len(rooms) :
         rooms[i].name = config.active_rooms[i] /\ ~rooms[i].light_on
    /\ [][/\ Len(rooms') = Len(rooms)
           /\ config' = config
           /\ \A i \in 1 .. Len(rooms) :
                /\ rooms'[i].name = rooms[i].name
                /\ rooms'[i].light_on # rooms[i].light_on =>
                      (pc = "waiting" /\ selected_room' = i)]_vars

\* The second room was switched on while the first stayed off.
C8_Witness ==
    /\ Len(rooms) = 2
    /\ selected_room = 2
    /\ rooms[2].light_on
    /\ ~rooms[1].light_on

\* C9: a keyboard interruption, raised inside the provider's request or
\* arriving anywhere else in the loop, ends the program cleanly; no light
\* changes with it or after it and the loop does not go on.
C9_InterruptExitsCleanly ==
    [][/\ (outcome'.kind = "interrupt" \/ exc' = "KeyboardInterrupt") =>
            (pc' = "exited" /\ exc' = "KeyboardInterrupt" /\ rooms' = rooms)
       /\ pc = "exited" => (pc' = "exited" /\ rooms' = rooms)]_vars

\* The interruption arrived during the provider's request, with a light on.
C9_Witness ==
    /\ pc = "exited"
    /\ outcome.kind = "interrupt"
    /\ \E i \in 1 .. Len(rooms) : rooms[i].light_on

\* The latitude is a number in [-90, 90] and the longitude one in [-180, 180].
LocationInRange(cfg) ==
    /\ cfg.latitude.kind = "num"
    /\ 0 - 900000 <= cfg.latitude.v /\ cfg.latitude.v <= 900000
    /\ cfg.longitude.kind = "num"
    /\ 0 - 1800000 <= cfg.longitude.v /\ cfg.longitude.v <= 1800000

\* What was typed in the location editor is an unrecognised choice, or a value
\* that is not a number, not finite or out of range.
LocationEntryRejected(typed) ==
    LET NotANumber == {"abc", ""}
        NotFinite == {"nan", "inf", "-inf"}
    IN  \/ typed.choice = "x"
        \/ /\ typed.choice \in {"l", "L"}
           /\ typed.entry[1] \in
                  NotANumber \cup NotFinite \cup {"90.0001", "-90.0001", "180"}
        \/ /\ typed.choice = "o"
           /\ typed.entry[1] \in
                  NotANumber \cup NotFinite \cup {"180.0001", "-180.0001"}

\* C10: in the location editor the latitude stays in [-90, 90] and the longitude
\* in [-180, 180]; a non-numeric, out-of-range or non-finite value and an
\* unrecognised choice leave the configuration unchanged; the editor stays in
\* the location menu until 'b'.
C10_LocationInputRejected ==
    /\ []LocationInRange(config)
    /\ [][pc = "location_menu" =>
             /\ LocationEntryRejected(input') => config' = config
             /\ config'.active_rooms = config.active_rooms
             /\ config'.timezone = config.timezone
             /\ file' = file
             /\ pc' = IF input'.choice \in {"b", "B"}
                      THEN "main_menu"
                      ELSE "location_menu"]_vars

\* nan was typed for the latitude after the longitude had been set to -180.
C10_Witness ==
    /\ pc = "location_menu"
    /\ input = [choice |-> "l", entry |-> <<"nan">>]
    /\ config.longitude = Float(0 - 1800000)
    /\ config.latitude = Float(407128)

\* C11: the saved file is written only by the 's' choice of the main menu.
\* Every step that changes the file is that choice, it writes exactly the
\* configuration in memory and ends the session; every other step, 'q'
\* included, leaves the file as it was.
C11_FileWrittenOnlyBySave ==
    [][/\ file' # file =>
            /\ pc = "main_menu"
            /\ Lower(Strip(input'.choice)) = "s"
       /\ (pc = "main_menu" /\ Lower(Strip(input'.choice)) = "s") =>
            /\ file' = ValidFile(config)
            /\ config' = config
            /\ pc' = "done"
       /\ (pc = "main_menu" /\ Lower(Strip(input'.choice)) = "q") =>
            /\ file' = file
            /\ pc' = "done"]_vars

\* A session that edited rooms, location and timezone and then saved.
C11_Witness ==
    /\ pc = "done"
    /\ Lower(Strip(input.choice)) = "s"
    /\ file = ValidFile(config)
    /\ Len(config.active_rooms) > Len(DEFAULT_ROOMS)
    /\ config.latitude # DEFAULT_CONFIG.latitude
    /\ config.timezone = "Europe/Paris"

C13_BoundsSetEveryIteration ==
    [][/\ ~use_sunset => outcome' = NoOutcome /\ weather_data' = NoData
       /\ (pc = "top" /\ pc' = "check") =>
            IF use_sunset /\ outcome'.kind = "ok"
            THEN /\ start_time' = outcome'.times[1]
                 /\ end_time' = outcome'.times[2]
            ELSE /\ start_time' = Time(18, 0)
                 /\ end_time' = Time(8, 0)]_vars

\* An iteration whose answer gives the empty window 12:00-12:00 after an
\* earlier iteration that was inside its window and switched a light on.
C13_Witness ==
    /\ pc = "check"
    /\ use_sunset
    /\ outcome.kind = "ok"
    /\ start_time = Time(12, 0)
    /\ end_time = Time(12, 0)
    /\ \E i \in 1 .. Len(rooms) : rooms[i].light_on

\* C14: an iteration that finds the current time outside the active window
\* selects no room, draws no decision bit and changes no light; it sleeps
\* until the next instant whose time of day is the window's start and then
\* begins a new iteration.
C14_OutsideIterationOnlySleeps ==
    [][/\ (pc = "check" /\ ~in_active_window(start_time, end_time, TimeOfDay(now))) =>
            /\ pc' \in {"sleep_outside", "exited"}
            /\ rooms' = rooms
            /\ selected_room' = Unset
            /\ decision' = Unset
            /\ pc' = "sleep_outside" =>
                 /\ next_start' > now
                 /\ next_start' - now <= MinutesPerDay
                 /\ TimeOfDay(next_start') = start_time
                 /\ sleeping' = (next_start' - now) * 60
       /\ pc = "sleep_outside" =>
            /\ pc' \in {"top", "exited"}
            /\ rooms' = rooms
            /\ selected_room' = Unset
            /\ decision' = Unset
            /\ pc' = "top" => now' = next_start]_vars

\* The sleep of an outside-window iteration has ended with a light on.
C14_Witness ==
    /\ pc = "top"
    /\ active = NoValue
    /\ selected_room = Unset
    /\ start_time # Unset
    /\ TimeOfDay(now) = start_time
    /\ now >= MinutesPerDay
    /\ \E i \in 1 .. Len(rooms) : rooms[i].light_on

\* C15: no two outside-window sleeps in a row while the bounds stay the same.
\* The window test of the iteration that follows a sleep until the window's
\* start (next_start holds the instant slept for) finds the time inside the
\* window and goes to the random wait, with the fixed bounds always and with
\* daylight bounds whenever the start is still the one slept for and differs
\* from the end.
C15_NoTwoOutsideSleepsInARow ==
    [][(/\ pc = "check"
        /\ next_start # Unset
        /\ \/ ~use_sunset
           \/ /\ TimeOfDay(next_start) = start_time
              /\ start_time # end_time) =>
            /\ now = next_start
            /\ pc' \in {"waiting", "exited"}
            /\ pc' = "waiting" =>
                 /\ active' = <<TRUE>>
                 /\ time_frame' \in 1 .. 12]_vars

\* The random wait entered at 18:00 of a later day: only the iteration after
\* an outside-window sleep tests the window at that instant.
C15_Witness ==
    /\ pc = "waiting"
    /\ ~use_sunset
    /\ active = <<TRUE>>
    /\ now >= MinutesPerDay
    /\ TimeOfDay(now) = Time(18, 0)

\* The active rooms before the first call (the list the file holds), the
\* active rooms now, and the name toggled.
RoomsBefore == Range(file.data.active_rooms)
RoomsNow == Range(config.active_rooms)
ToggledName == input.entry[1]

ListedRooms == Range(default_rooms) \cup Range(config.active_rooms)
TypedSelection == Lower(Strip(input'.choice))
TypedRoomName == Strip(input'.entry[1])

\* C17: in the room editor 'a' with a non-empty name that is not listed
\* appends the name to the active rooms; an empty name, a listed name, a
\* number outside 1..(number of listed rooms) and a non-numeric selection
\* leave the active rooms unchanged; the editor stays at its prompt until 'b'.
C17_RoomEditorRejectsBadInput ==
    [][pc = "rooms_menu" =>
        /\ file' = file
        /\ pc' = IF TypedSelection = "b" THEN "main_menu" ELSE "rooms_menu"
        /\ TypedSelection = "b" => config' = config
        /\ TypedSelection = "a" =>
             IF TypedRoomName # "" /\ TypedRoomName \notin ListedRooms
             THEN config' = [config EXCEPT !.active_rooms =
                                Append(config.active_rooms, TypedRoomName)]
             ELSE config' = config
        /\ (/\ TypedSelection \notin {"a", "b"}
            /\ \A n \in 1 .. Cardinality(ListedRooms) :
                  ParseInt(TypedSelection) # <<n>>) =>
             config' = config]_vars

\* A new room has just been added after the first one.
C17_Witness ==
    /\ pc = "rooms_menu"
    /\ Lower(Strip(input.choice)) = "a"
    /\ input.entry = <<"Attic">>
    /\ Len(config.active_rooms) >= 2
    /\ config.active_rooms[Len(config.active_rooms)] = "Attic"

\* C18: at every prompt of the room editor the menu lists every default room
\* (Living Room, Bedroom, Kitchen), whether the session started from a saved
\* file or from the built-in defaults.
C18_DefaultRoomsAlwaysListed ==
    pc = "rooms_menu" =>
        \A room \in {"Living Room", "Bedroom", "Kitchen"} :
            room \in Range(display_rooms_menu(config, default_rooms))

\* C19: editing never changes the built-in defaults: DEFAULT_ROOMS and
\* DEFAULT_CONFIG keep their original values, and load_config with no file
\* still returns active_rooms = Living Room, Bedroom, Kitchen.
C19_DefaultsNeverChange ==
    /\ default_rooms = <<"Living Room", "Bedroom", "Kitchen">>
    /\ load_config(MissingFile, default_rooms).active_rooms
           = <<"Living Room", "Bedroom", "Kitchen">>

\* C20: the active room list never holds a name twice, whatever the room editor
\* is given (numbers, new names, rejected inputs), so the scheduler's room list
\* made from it has one Room per name.
C20_NoDuplicateRooms ==
    /\ \A i, j \in 1 .. Len(config.active_rooms) :
          config.active_rooms[i] = config.active_rooms[j] => i = j
    /\ Len(MakeRooms(config.active_rooms)) = Cardinality(Range(config.active_rooms))
    /\ \A name \in Range(config.active_rooms) :
          Cardinality({i \in 1 .. Len(config.active_rooms) :
                          MakeRooms(config.active_rooms)[i].name = name}) = 1

\* A default room was switched off and on again after a new room was added.
C20_Witness ==
    /\ pc = "rooms_menu"
    /\ Len(config.active_rooms) = 4
    /\ config.active_rooms[3] = "Attic"
    /\ config.active_rooms[4] = "Living Room"
    /\ ParseInt(Lower(Strip(input.choice))) # <<>>

====
